---------------------------- MODULE Spec2Model ----------------------------
(***************************************************************************)
(* Hybrid retrieval stack: offline ingestion (src/ingest_offline.py) and   *)
(* the online /retrieve handler (src/hybrid_retrieval_api.py).             *)
(*                                                                         *)
(* Texts are TLA+ strings, handled character by character the way the      *)
(* Python code and its regular expressions handle them.  Four              *)
(* specifications share the variables:                                     *)
(*   SpecIngest    one run of ingest_offline.main                          *)
(*   SpecRetrieve  one /retrieve request                                   *)
(*   SpecPhrase    phrase_present on bounded inputs                        *)
(*   SpecRRF       rrf_union on bounded inputs                             *)
(***************************************************************************)
EXTENDS Integers, Sequences, FiniteSets, TLC

VARIABLES
    \* ---- ingest_offline.main ----
    ipc,                 \* position in main
    USE_WHOOSH,          \* line 190
    coll_idx,            \* index of the collection being ingested (line 223)
    files_done,          \* files walked so far in this run
    chunks_done,         \* chunks taken from the chunker so far in this run
    file_chunks,         \* chunks taken from the current file
    seen_hashes,         \* line 208
    seen_simhashes,      \* line 209
    exact_dups_skipped,  \* line 210
    near_dups_skipped,   \* line 211
    ids,                 \* per-file buffer, line 276
    payload_texts,       \* per-file buffer, line 279
    batch_pos,           \* number of ids of the current file already sent to Chroma
    to_upsert_for_bm25,  \* line 240
    jsonl,               \* app -> records written through get_jsonl_writer(app)
    chroma,              \* collection name -> ids added with coll.add
    whoosh,              \* app -> doc_ids committed with upsert
    retained,            \* history: the chunks kept so far, in order
    last_chunk,          \* history: what the last loop iteration did
    \* ---- hybrid_retrieval_api.retrieve ----
    rpc,                 \* position in retrieve
    req,                 \* the request's parameters
    vres,                \* v_ids returned by coll.query
    branks,              \* ids returned by pyserini_bm25, in rank order
    fused_pairs,         \* line 274
    cand_ids,            \* line 289
    filt_ids,            \* line 301, after the strict filter loop
    response,            \* the returned body
    \* ---- pure functions on bounded inputs ----
    ppc, ph_text, ph_phrase, ph_prox, ph_result,
    fpc, rankings, rrf_result,
    \* ---- mmr on bounded inputs ----
    mpc, m_sim_q, m_cos, m_top_n, m_selected,
    \* ---- ingest_offline.main run twice over one corpus ----
    rr_pc, rr_corpus, rr_use_whoosh, rr_stores, rr_first,
    \* ---- two concurrent calls of retrieve with the same parameters ----
    c_pc, c_req, c_index, c_argsort, c_vres, c_branks, c_fused, c_cand, c_filt, c_response

ingest_vars == <<ipc, USE_WHOOSH, coll_idx, files_done, chunks_done, file_chunks,
                 seen_hashes, seen_simhashes, exact_dups_skipped, near_dups_skipped,
                 ids, payload_texts, batch_pos, to_upsert_for_bm25, jsonl, chroma,
                 whoosh, retained, last_chunk>>
retrieve_vars == <<rpc, req, vres, branks, fused_pairs, cand_ids, filt_ids, response>>
phrase_vars == <<ppc, ph_text, ph_phrase, ph_prox, ph_result>>
rrf_vars == <<fpc, rankings, rrf_result>>
mmr_vars == <<mpc, m_sim_q, m_cos, m_top_n, m_selected>>
rerun_vars == <<rr_pc, rr_corpus, rr_use_whoosh, rr_stores, rr_first>>
conc_vars == <<c_pc, c_req, c_index, c_argsort, c_vres, c_branks, c_fused, c_cand, c_filt, c_response>>
vars == <<ingest_vars, retrieve_vars, phrase_vars, rrf_vars, mmr_vars, rerun_vars, conc_vars>>

-----------------------------------------------------------------------------
(* Characters and the character classes of Python's re on ASCII text *)

Char(s, i) == SubSeq(s, i, i)

LowerAlpha == "abcdefghijklmnopqrstuvwxyz"
UpperAlpha == "ABCDEFGHIJKLMNOPQRSTUVWXYZ"
LowerChars == {Char(LowerAlpha, i) : i \in 1..Len(LowerAlpha)}
UpperChars == {Char(UpperAlpha, i) : i \in 1..Len(UpperAlpha)}
DigitChars == {"0", "1", "2", "3", "4", "5", "6", "7", "8", "9"}
\* \s
SpaceChars == {" ", "\n", "\t"}
\* [A-Za-z0-9_], which is \w on ASCII text
WordChars == LowerChars \cup UpperChars \cup DigitChars \cup {"_"}

SetMin(S) == CHOOSE x \in S : \A y \in S : x <= y
SetMax(S) == CHOOSE x \in S : \A y \in S : x >= y

lower_char(c) ==
    IF c \in UpperChars
    THEN Char(LowerAlpha, CHOOSE i \in 1..Len(UpperAlpha) : Char(UpperAlpha, i) = c)
    ELSE c

\* str.lower()
RECURSIVE lower(_)
lower(s) == IF s = "" THEN "" ELSE lower_char(Char(s, 1)) \o lower(Tail(s))

\* The end (exclusive) of the longest run of characters of class C starting at i.
RunEnd(s, i, C) ==
    SetMin({j \in i..(Len(s) + 1) : j = Len(s) + 1 \/ Char(s, j) \notin C})

\* str.strip()
strip(s) ==
    LET a == RunEnd(s, 1, SpaceChars)
    IN  IF a > Len(s) THEN ""
        ELSE SubSeq(s, a, SetMax({j \in a..Len(s) : Char(s, j) \notin SpaceChars}))

-----------------------------------------------------------------------------
(* src/ingest_offline.py: dedupe helpers *)

\* ^ under re.M
AtLineStart(s, i) == i = 1 \/ Char(s, i - 1) = "\n"

\* A literal under re.I, at position i
MatchWordCI(s, i, w) ==
    /\ i + Len(w) - 1 <= Len(s)
    /\ lower(SubSeq(s, i, i + Len(w) - 1)) = w

\* \s*$ under re.M from position k: the greedy \s* gives characters back until
\* $ holds, at the end of the text or before a newline.  0: no match.
TrailingSpaceToLineEnd(s, k) ==
    LET m == RunEnd(s, k, SpaceChars)
        E == {e \in k..m : e = Len(s) + 1 \/ Char(s, e) = "\n"}
    IN  IF E = {} THEN 0 ELSE SetMax(E)

\* ^\s*page\s+\d+\s*$ at position i: the end (exclusive) of the match, 0 if none
boiler_page(s, i) ==
    IF ~AtLineStart(s, i) THEN 0
    ELSE LET a == RunEnd(s, i, SpaceChars)
         IN  IF ~MatchWordCI(s, a, "page") THEN 0
             ELSE LET b == a + Len("page")
                      c == RunEnd(s, b, SpaceChars)
                      d == RunEnd(s, c, DigitChars)
                  IN  IF c = b \/ d = c THEN 0 ELSE TrailingSpaceToLineEnd(s, d)

\* ^\s*confidential\s*$ at position i
boiler_confidential(s, i) ==
    IF ~AtLineStart(s, i) THEN 0
    ELSE LET a == RunEnd(s, i, SpaceChars)
         IN  IF ~MatchWordCI(s, a, "confidential") THEN 0
             ELSE TrailingSpaceToLineEnd(s, a + Len("confidential"))

\* _boiler at position i: the first alternative that matches
boiler_match(s, i) ==
    IF boiler_page(s, i) > 0 THEN boiler_page(s, i) ELSE boiler_confidential(s, i)

\* _boiler.sub(" ", s), scanning from position i
RECURSIVE boiler_sub(_, _)
boiler_sub(s, i) ==
    IF i > Len(s) THEN ""
    ELSE LET e == boiler_match(s, i)
         IN  IF e > 0 THEN " " \o boiler_sub(s, e)
             ELSE Char(s, i) \o boiler_sub(s, i + 1)

\* _ws.sub(" ", s), scanning from position i
RECURSIVE ws_sub(_, _)
ws_sub(s, i) ==
    IF i > Len(s) THEN ""
    ELSE IF Char(s, i) \in SpaceChars
         THEN " " \o ws_sub(s, RunEnd(s, i, SpaceChars))
         ELSE Char(s, i) \o ws_sub(s, i + 1)

normalize_for_hash(text) == strip(ws_sub(lower(boiler_sub(text, 1)), 1))

\* hashlib.sha256(...).hexdigest() of the normalized texts the model's corpus
\* produces (the real digests)
SHA256_HEX ==
    ("refund escalation requires supervisor approval." :> "6312eb6ccfc7cf4b4224500595f273dd8879c754f98906c6dbbe8a01c3af18f9")
 @@ ("must" :> "4137b01e139589b7a1d3b3fc4da031d8ce5bb415808734e970c3a58ea0e98f0f")
 @@ ("escalation must must policy" :> "ded337ede907be8f21ad3a1b61f3da4facb4aaba61ba4660ecaff944fa93546c")
 @@ ("grant" :> "3492ad65d05a973fef8c825521eeb41ae64625a672a8aeeeabc696e16d62a020")
 @@ ("must grant grant claim" :> "a3d3ee4082f6b97e4f92c2a4510c62de2a4f8e116f00df54caf1023e0e5f113f")
 @@ ("" :> "e3b0c44298fc1c149afbf4c8996fb92427ae41e4649b934ca495991b7852b855")

chunk_sha256(text) == SHA256_HEX[text]

\* default n of simhash
SIMHASH_BITS == 64

\* The low 64 bits of int(md5(w).hexdigest(), 16), as the set of the positions
\* of the bits that are 1 (the real digests of the corpus's tokens)
MD5_LOW64 ==
    ("refund" :> {0, 2, 3, 5, 8, 9, 10, 11, 12, 13, 14, 15, 17, 18, 19, 22, 29, 31, 32, 35, 37, 38, 45, 47, 48, 53, 55, 57, 59, 60, 61, 63})
 @@ ("escalation" :> {0, 5, 10, 14, 15, 17, 19, 20, 23, 24, 27, 28, 35, 37, 38, 40, 41, 42, 43, 46, 47, 50, 51, 52, 54, 55, 58, 62, 63})
 @@ ("requires" :> {0, 1, 2, 4, 5, 7, 8, 10, 13, 14, 17, 18, 20, 21, 22, 24, 26, 27, 30, 31, 33, 36, 45, 46, 47, 49, 50, 54, 55, 57, 59, 60, 61, 62})
 @@ ("supervisor" :> {0, 2, 3, 4, 5, 11, 12, 13, 14, 17, 19, 20, 21, 22, 24, 25, 26, 27, 28, 30, 31, 35, 42, 43, 44, 45, 46, 51, 52, 53, 59, 60})
 @@ ("approval" :> {3, 4, 5, 6, 8, 9, 13, 14, 15, 17, 18, 19, 20, 21, 22, 31, 40, 41, 42, 45, 47, 48, 50, 51, 52, 60, 61})
 @@ ("must" :> {0, 1, 4, 12, 14, 15, 16, 19, 23, 25, 31, 37, 38, 40, 41, 42, 43, 46, 51, 54, 55, 57, 59, 60, 61, 62, 63})
 @@ ("policy" :> {1, 2, 4, 6, 7, 8, 9, 11, 12, 15, 21, 22, 24, 26, 29, 32, 33, 35, 36, 38, 44, 48, 51, 53, 54, 55, 58, 59})
 @@ ("grant" :> {0, 1, 5, 7, 8, 9, 10, 12, 14, 17, 21, 22, 23, 25, 26, 28, 36, 37, 41, 43, 45, 46, 47, 50, 53, 54, 56, 59, 61, 62, 63})
 @@ ("claim" :> {0, 1, 2, 5, 6, 7, 9, 10, 12, 13, 14, 15, 17, 23, 24, 27, 30, 33, 34, 36, 37, 43, 44, 45, 49, 51, 53, 56, 57, 60})

\* \b before position i
WordBoundary(s, i) ==
    (i > 1 /\ Char(s, i - 1) \in WordChars) # (i <= Len(s) /\ Char(s, i) \in WordChars)

\* \b[\w\-]+\b at position i: the end (exclusive) of the match, 0 if none.  The
\* greedy run gives characters back until the closing \b holds.
simhash_token_match(s, i) ==
    IF i > Len(s) \/ ~WordBoundary(s, i) \/ Char(s, i) \notin (WordChars \cup {"-"})
    THEN 0
    ELSE LET r == RunEnd(s, i, WordChars \cup {"-"})
             E == {e \in (i + 1)..r : WordBoundary(s, e)}
         IN  IF E = {} THEN 0 ELSE SetMax(E)

\* re.findall(r"\b[\w\-]+\b", s), scanning from position i
RECURSIVE simhash_tokens(_, _)
simhash_tokens(s, i) ==
    IF i > Len(s) THEN <<>>
    ELSE LET e == simhash_token_match(s, i)
         IN  IF e > 0 THEN <<SubSeq(s, i, e - 1)>> \o simhash_tokens(s, e)
             ELSE simhash_tokens(s, i + 1)

\* A 64-bit value is the set of the positions of its 1 bits; 0 is {}.
simhash(text) ==
    LET tokens == simhash_tokens(lower(text), 1)
        v(i) == 2 * Cardinality({k \in 1..Len(tokens) : i \in MD5_LOW64[tokens[k]]})
                    - Len(tokens)
    IN  IF tokens = <<>> THEN {}
        ELSE {i \in 0..(SIMHASH_BITS - 1) : v(i) >= 0}

hamming(a, b) == Cardinality((a \ b) \cup (b \ a))

-----------------------------------------------------------------------------
(* src/ingest_offline.py: main *)

\* Bounds of the model
MaxFiles == 2        \* files walked in one run
MaxChunks == 3       \* chunks the chunker yields in one run

\* Chroma batch size (256 in the source, scaled down so that a file of the
\* model spans more than one batch)
BATCH_SIZE == 2
\* Whoosh commit threshold (5000 in the source, scaled down likewise)
WHOOSH_COMMIT_EVERY == 2
\* near-duplicate threshold on the Hamming distance
NEAR_DUP_MAX_HAMMING == 3

\* cfg["collections"] and the apps cfg["roots"] has a root for
Collections ==
    << [name |-> "claims_docs", app |-> "claims"],
       [name |-> "hr_docs",     app |-> "hr"],
       [name |-> "fraud_docs",  app |-> "fraud"] >>
RootApps == {"claims", "fraud"}
Apps == {Collections[i].app : i \in 1..Len(Collections)}
CollNames == {Collections[i].name : i \in 1..Len(Collections)}

\* ch["body"] of the chunks the chunker may yield
Bodies ==
    { "Refund escalation requires supervisor approval.",
      "refund  ESCALATION requires\nsupervisor approval. ",
      "must",
      "Page 3\nmust",
      "escalation must must policy",
      "grant",
      "must grant grant claim",
      "Page 3\nConfidential",
      "  " }

\* A loop that never finds an exact duplicate
never_exact_dup(hid, seen) == FALSE

\* An exact test with the membership inverted
inverted_exact_dup(hid, seen) == seen # {} /\ hid \notin seen

\* line 292
is_exact_dup(hid, seen) == hid \in seen

\* A near-duplicate test with the threshold one too small
is_near_dup_below(sh, seen) ==
    \E k \in 1..Len(seen) : hamming(sh, seen[k]) < NEAR_DUP_MAX_HAMMING

\* line 297
is_near_dup(sh, seen) ==
    \E k \in 1..Len(seen) : hamming(sh, seen[k]) <= NEAR_DUP_MAX_HAMMING

\* lines 285-306: what the loop computes for one chunk body
piece_of(body) == strip(body)
norm_of(body) == normalize_for_hash(piece_of(body))
hid_of(body) == chunk_sha256(norm_of(body))
sh_of(body) == simhash(norm_of(body))
cid_of(body) == "h:" \o hid_of(body)

\* The same, computed once per body of the corpus
ChunkFacts ==
    [b \in Bodies |-> [piece |-> piece_of(b), norm |-> norm_of(b), hid |-> hid_of(b),
                       sh |-> sh_of(b), cid |-> cid_of(b)]]

\* batched(seq, n): the slice that starts after the first `done` elements
batched(seq, n, done) ==
    SubSeq(seq, done + 1, IF done + n < Len(seq) THEN done + n ELSE Len(seq))

Range(f) == {f[i] : i \in DOMAIN f}

\* whoosh_index.upsert(ix, docs): the index of the app holds the doc_ids given
upsert(ix, docs) == ix \cup Range(docs)

cur_coll == Collections[coll_idx]

\* An ingestion run touches nothing of the retrieval service
IngestOnly == UNCHANGED <<retrieve_vars, phrase_vars, rrf_vars, mmr_vars, rerun_vars, conc_vars>>

IngestInit ==
    /\ ipc = "collection"
    /\ USE_WHOOSH \in BOOLEAN
    /\ coll_idx = 1
    /\ files_done = 0
    /\ chunks_done = 0
    /\ file_chunks = 0
    /\ seen_hashes = {}
    /\ seen_simhashes = <<>>
    /\ exact_dups_skipped = 0
    /\ near_dups_skipped = 0
    /\ ids = <<>>
    /\ payload_texts = <<>>
    /\ batch_pos = 0
    /\ to_upsert_for_bm25 = <<>>
    /\ jsonl = [a \in Apps |-> <<>>]
    /\ chroma = [c \in CollNames |-> {}]
    /\ whoosh = [a \in Apps |-> {}]
    /\ retained = <<>>
    /\ last_chunk = [body |-> "", outcome |-> "none"]

\* lines 223-245: get_or_create_collection succeeds; a collection whose app has
\* no root is skipped
BeginCollection ==
    /\ ipc = "collection"
    /\ IngestOnly
    /\ coll_idx <= Len(Collections)
    /\ to_upsert_for_bm25' = <<>>
    /\ IF cur_coll.app \in RootApps
       THEN ipc' = "walk" /\ UNCHANGED coll_idx
       ELSE ipc' = "collection" /\ coll_idx' = coll_idx + 1
    /\ UNCHANGED <<USE_WHOOSH, files_done, chunks_done, file_chunks, seen_hashes,
                   seen_simhashes, exact_dups_skipped, near_dups_skipped, ids,
                   payload_texts, batch_pos, jsonl, chroma, whoosh, retained,
                   last_chunk>>

\* lines 228-237: get_or_create_collection raises; the run ends (SystemExit, or
\* FATAL at line 394)
BeginCollectionFails ==
    /\ ipc = "collection"
    /\ IngestOnly
    /\ coll_idx <= Len(Collections)
    /\ ipc' = "aborted"
    /\ UNCHANGED <<USE_WHOOSH, coll_idx, files_done, chunks_done, file_chunks,
                   seen_hashes, seen_simhashes, exact_dups_skipped,
                   near_dups_skipped, ids, payload_texts, batch_pos,
                   to_upsert_for_bm25, jsonl, chroma, whoosh, retained, last_chunk>>

\* lines 254-273: a file that is skipped (extension, size, no text, no chunks)
SkipFile ==
    /\ ipc = "walk"
    /\ IngestOnly
    /\ files_done < MaxFiles
    /\ files_done' = files_done + 1
    /\ UNCHANGED <<ipc, USE_WHOOSH, coll_idx, chunks_done, file_chunks, seen_hashes,
                   seen_simhashes, exact_dups_skipped, near_dups_skipped, ids,
                   payload_texts, batch_pos, to_upsert_for_bm25, jsonl, chroma,
                   whoosh, retained, last_chunk>>

\* lines 266-282: a file with chunks; fresh per-file buffers
BeginFile ==
    /\ ipc = "walk"
    /\ IngestOnly
    /\ files_done < MaxFiles
    /\ chunks_done < MaxChunks
    /\ ipc' = "chunks"
    /\ files_done' = files_done + 1
    /\ file_chunks' = 0
    /\ ids' = <<>>
    /\ payload_texts' = <<>>
    /\ batch_pos' = 0
    /\ UNCHANGED <<USE_WHOOSH, coll_idx, chunks_done, seen_hashes, seen_simhashes,
                   exact_dups_skipped, near_dups_skipped, to_upsert_for_bm25, jsonl,
                   chroma, whoosh, retained, last_chunk>>

\* lines 284-326: one iteration of the chunk loop
ProcessChunk(body) ==
    /\ ipc = "chunks"
    /\ IngestOnly
    /\ chunks_done < MaxChunks
    /\ chunks_done' = chunks_done + 1
    /\ file_chunks' = file_chunks + 1
    /\ LET f == ChunkFacts[body]
       IN  IF f.piece = ""
           THEN /\ last_chunk' = [body |-> body, outcome |-> "empty"]
                /\ UNCHANGED <<seen_hashes, seen_simhashes, exact_dups_skipped,
                               near_dups_skipped, ids, payload_texts, jsonl, retained>>
           ELSE IF is_exact_dup(f.hid, seen_hashes)
           THEN /\ exact_dups_skipped' = exact_dups_skipped + 1
                /\ last_chunk' = [body |-> body, outcome |-> "exact"]
                /\ UNCHANGED <<seen_hashes, seen_simhashes, near_dups_skipped, ids,
                               payload_texts, jsonl, retained>>
           ELSE IF is_near_dup(f.sh, seen_simhashes)
           THEN /\ near_dups_skipped' = near_dups_skipped + 1
                /\ last_chunk' = [body |-> body, outcome |-> "near"]
                /\ UNCHANGED <<seen_hashes, seen_simhashes, exact_dups_skipped, ids,
                               payload_texts, jsonl, retained>>
           ELSE /\ seen_hashes' = seen_hashes \cup {f.hid}
                /\ seen_simhashes' = Append(seen_simhashes, f.sh)
                /\ ids' = Append(ids, f.cid)
                /\ payload_texts' = Append(payload_texts, f.piece)
                /\ jsonl' = [jsonl EXCEPT ![cur_coll.app] = Append(@, f.cid)]
                /\ retained' = Append(retained, [cid |-> f.cid, sh |-> f.sh,
                                                 piece |-> f.piece, norm |-> f.norm])
                /\ last_chunk' = [body |-> body, outcome |-> "kept"]
                /\ UNCHANGED <<exact_dups_skipped, near_dups_skipped>>
    /\ UNCHANGED <<ipc, USE_WHOOSH, coll_idx, files_done, batch_pos,
                   to_upsert_for_bm25, chroma, whoosh>>

\* lines 328-329: the end of the chunk loop
EndChunks ==
    /\ ipc = "chunks"
    /\ IngestOnly
    /\ file_chunks >= 1
    /\ ipc' = IF ids = <<>> THEN "walk" ELSE "embed"
    /\ UNCHANGED <<USE_WHOOSH, coll_idx, files_done, chunks_done, file_chunks,
                   seen_hashes, seen_simhashes, exact_dups_skipped,
                   near_dups_skipped, ids, payload_texts, batch_pos,
                   to_upsert_for_bm25, jsonl, chroma, whoosh, retained, last_chunk>>

\* lines 332-345: the next batch is embedded and added to the collection
AddBatch ==
    /\ ipc = "embed"
    /\ IngestOnly
    /\ LET b_ids == batched(ids, BATCH_SIZE, batch_pos)
       IN  /\ chroma' = [chroma EXCEPT ![cur_coll.name] = @ \cup Range(b_ids)]
           /\ batch_pos' = batch_pos + Len(b_ids)
           /\ ipc' = IF batch_pos + Len(b_ids) >= Len(ids) THEN "stage" ELSE "embed"
    /\ UNCHANGED <<USE_WHOOSH, coll_idx, files_done, chunks_done, file_chunks,
                   seen_hashes, seen_simhashes, exact_dups_skipped,
                   near_dups_skipped, ids, payload_texts, to_upsert_for_bm25, jsonl,
                   whoosh, retained, last_chunk>>

\* lines 338-344: embed_list or coll.add raises; nothing catches it before
\* line 393, the run ends
AddBatchFails ==
    /\ ipc = "embed"
    /\ IngestOnly
    /\ ipc' = "aborted"
    /\ UNCHANGED <<USE_WHOOSH, coll_idx, files_done, chunks_done, file_chunks,
                   seen_hashes, seen_simhashes, exact_dups_skipped,
                   near_dups_skipped, ids, payload_texts, batch_pos,
                   to_upsert_for_bm25, jsonl, chroma, whoosh, retained, last_chunk>>

\* A staging step that forgets the file's documents
staged_without_file == to_upsert_for_bm25

\* lines 347-358: the staged Whoosh documents after this file
staged_after_file ==
    IF USE_WHOOSH THEN to_upsert_for_bm25 \o ids ELSE to_upsert_for_bm25

\* lines 347-368: stage the file's Whoosh documents, commit when enough are staged
StageFile ==
    /\ ipc = "stage"
    /\ IngestOnly
    /\ ipc' = "walk"
    /\ IF USE_WHOOSH /\ Len(staged_after_file) >= WHOOSH_COMMIT_EVERY
       THEN /\ whoosh' = [whoosh EXCEPT ![cur_coll.app] = upsert(@, staged_after_file)]
            /\ to_upsert_for_bm25' = <<>>
       ELSE /\ to_upsert_for_bm25' = staged_after_file
            /\ UNCHANGED whoosh
    /\ UNCHANGED <<USE_WHOOSH, coll_idx, files_done, chunks_done, file_chunks,
                   seen_hashes, seen_simhashes, exact_dups_skipped,
                   near_dups_skipped, ids, payload_texts, batch_pos, jsonl, chroma,
                   retained, last_chunk>>

\* lines 365-366: the periodic upsert raises
StageFileUpsertFails ==
    /\ ipc = "stage"
    /\ IngestOnly
    /\ USE_WHOOSH /\ Len(staged_after_file) >= WHOOSH_COMMIT_EVERY
    /\ ipc' = "aborted"
    /\ to_upsert_for_bm25' = staged_after_file
    /\ UNCHANGED <<USE_WHOOSH, coll_idx, files_done, chunks_done, file_chunks,
                   seen_hashes, seen_simhashes, exact_dups_skipped,
                   near_dups_skipped, ids, payload_texts, batch_pos, jsonl, chroma,
                   whoosh, retained, last_chunk>>

\* lines 370-375: the walk of the collection's roots is over; final Whoosh commit
EndCollection ==
    /\ ipc = "walk"
    /\ IngestOnly
    /\ ipc' = "collection"
    /\ coll_idx' = coll_idx + 1
    /\ IF USE_WHOOSH /\ to_upsert_for_bm25 # <<>>
       THEN whoosh' = [whoosh EXCEPT ![cur_coll.app] = upsert(@, to_upsert_for_bm25)]
       ELSE UNCHANGED whoosh
    /\ UNCHANGED <<USE_WHOOSH, files_done, chunks_done, file_chunks, seen_hashes,
                   seen_simhashes, exact_dups_skipped, near_dups_skipped, ids,
                   payload_texts, batch_pos, to_upsert_for_bm25, jsonl, chroma,
                   retained, last_chunk>>

\* lines 371-372: the final upsert raises
EndCollectionUpsertFails ==
    /\ ipc = "walk"
    /\ IngestOnly
    /\ USE_WHOOSH /\ to_upsert_for_bm25 # <<>>
    /\ ipc' = "aborted"
    /\ UNCHANGED <<USE_WHOOSH, coll_idx, files_done, chunks_done, file_chunks,
                   seen_hashes, seen_simhashes, exact_dups_skipped,
                   near_dups_skipped, ids, payload_texts, batch_pos,
                   to_upsert_for_bm25, jsonl, chroma, whoosh, retained, last_chunk>>

\* lines 377-385: every collection is ingested
Finish ==
    /\ ipc = "collection"
    /\ IngestOnly
    /\ coll_idx > Len(Collections)
    /\ ipc' = "done"
    /\ UNCHANGED <<USE_WHOOSH, coll_idx, files_done, chunks_done, file_chunks,
                   seen_hashes, seen_simhashes, exact_dups_skipped,
                   near_dups_skipped, ids, payload_texts, batch_pos,
                   to_upsert_for_bm25, jsonl, chroma, whoosh, retained, last_chunk>>

IngestNext ==
    \/ BeginCollection
    \/ BeginCollectionFails
    \/ SkipFile
    \/ BeginFile
    \/ \E body \in Bodies : ProcessChunk(body)
    \/ EndChunks
    \/ AddBatch
    \/ AddBatchFails
    \/ StageFile
    \/ StageFileUpsertFails
    \/ EndCollection
    \/ EndCollectionUpsertFails
    \/ Finish

-----------------------------------------------------------------------------
(* src/hybrid_retrieval_api.py: helpers *)

STOP ==
    {"the", "a", "an", "and", "or", "of", "for", "to", "in", "on", "with", "by",
     "from", "as", "is", "are", "be", "was", "were", "it", "this", "that", "these",
     "those"}
DOMAIN_STOP == {"claim", "claims", "policy", "process", "team", "user"}

\* re.findall(r"[A-Za-z0-9_]+", s), scanning from position i
RECURSIVE word_runs(_, _)
word_runs(s, i) ==
    IF i > Len(s) THEN <<>>
    ELSE IF Char(s, i) \in WordChars
         THEN LET e == RunEnd(s, i, WordChars)
              IN  <<SubSeq(s, i, e - 1)>> \o word_runs(s, e)
         ELSE word_runs(s, i + 1)

tokenize(s) == word_runs(lower(s), 1)

\* Bounds of the model
MaxHits == 2         \* ids an adapter returns to retrieve
MaxRank == 3         \* length of a rank map given to rrf_union alone

\* k of rrf_union
RRF_K == 60

\* The scores 1/(k + r) are kept exact, as integers over the common denominator
\* (k+1)(k+2)...(k+r), r the largest rank of the model.  The source adds them as floats; at the ranks of the
\* model two different sums differ by far more than a float's rounding.
RECURSIVE RrfDenomUpTo(_)
RrfDenomUpTo(r) == IF r = 0 THEN 1 ELSE (RRF_K + r) * RrfDenomUpTo(r - 1)
RrfDenom == RrfDenomUpTo(IF MaxRank > MaxHits THEN MaxRank ELSE MaxHits)
RrfUnit(r) == RrfDenom \div (RRF_K + r)

\* A rank map is the sequence of its items <<doc_id, rank>>, in insertion order
\* (a dict keeps it).  The items of all maps, in the order the loops visit them:
RECURSIVE RrfItems(_)
RrfItems(rks) == IF rks = <<>> THEN <<>> ELSE Head(rks) \o RrfItems(Tail(rks))

\* The keys of `scores`, in insertion order: each doc_id where it first occurs
RrfKeys(items) ==
    LET first == {i \in 1..Len(items) : \A j \in 1..(i - 1) : items[j][1] # items[i][1]}
        nth(k) == CHOOSE i \in first : Cardinality({j \in first : j < i}) = k - 1
    IN  [k \in 1..Cardinality(first) |-> items[nth(k)][1]]

RECURSIVE SumSeq(_)
SumSeq(q) == IF q = <<>> THEN 0 ELSE Head(q) + SumSeq(Tail(q))

RrfScore(items, id) ==
    SumSeq([i \in 1..Len(items) |-> IF items[i][1] = id THEN RrfUnit(items[i][2]) ELSE 0])

\* line 56, sorted(items, key=lambda x: -x[1]): by descending score; Python's
\* sort is stable, items of equal score keep their order
sorted_by_score(pairs) ==
    LET n == Len(pairs)
        pos(i) == 1 + Cardinality({j \in 1..n : \/ pairs[j][2] > pairs[i][2]
                                                \/ (pairs[j][2] = pairs[i][2] /\ j < i)})
    IN  [k \in 1..n |-> pairs[CHOOSE i \in 1..n : pos(i) = k]]

\* lines 50-56: the list of <<doc_id, score>>, by descending score
rrf_union(rks) ==
    LET items == RrfItems(rks)
        keys == RrfKeys(items)
        pairs == [k \in 1..Len(keys) |-> <<keys[k], RrfScore(items, keys[k])>>]
    IN  sorted_by_score(pairs)

\* mmr's lam and 1 - lam, in tenths
MMR_LAM == 7
MMR_ONE_MINUS_LAM == 3

\* An argmax that gives the last position of the maximum
argmax_last(score, n) ==
    CHOOSE i \in 1..n : /\ \A j \in 1..n : score[j] <= score[i]
                        /\ \A j \in (i + 1)..n : score[j] < score[i]

\* np.argmax over the positions of `rest`: the first position of the maximum
argmax(score, n) ==
    CHOOSE i \in 1..n : /\ \A j \in 1..n : score[j] <= score[i]
                        /\ \A j \in 1..(i - 1) : score[j] < score[i]

RemoveAt(seq, i) == SubSeq(seq, 1, i - 1) \o SubSeq(seq, i + 1, Len(seq))

\* lines 76-83: the loop of mmr.  sim_q[i] and cos[i][j] are the cosine
\* similarities in tenths, the scores are in hundredths.
RECURSIVE mmr_loop(_, _, _, _, _)
mmr_loop(sim_q, cos, top_n, selected, rest) ==
    IF rest = <<>> \/ Len(selected) >= top_n THEN selected
    ELSE LET sim_div(i) == SetMax({cos[i][selected[k]] : k \in 1..Len(selected)})
             score == [m \in 1..Len(rest) |->
                          IF selected = <<>> THEN sim_q[rest[m]]
                          ELSE MMR_LAM * sim_q[rest[m]]
                                   - MMR_ONE_MINUS_LAM * sim_div(rest[m])]
             j == argmax(score, Len(rest))
         IN  mmr_loop(sim_q, cos, top_n, Append(selected, rest[j]), RemoveAt(rest, j))

\* lines 69-84: the selected positions of the shortlist, in selection order
mmr(sim_q, cos, top_n) ==
    IF Len(sim_q) = 0 THEN <<>>
    ELSE mmr_loop(sim_q, cos, top_n, <<>>, [i \in 1..Len(sim_q) |-> i])

\* lines 86-88
keyword_hits(text, terms) ==
    {t \in Range(terms) : t \in Range(tokenize(text))}

\* " ".join(words)
RECURSIVE join_space(_)
join_space(words) ==
    IF words = <<>> THEN ""
    ELSE IF Len(words) = 1 THEN words[1]
    ELSE words[1] \o " " \o join_space(Tail(words))

\* a in b, on strings
is_substring(a, b) ==
    \E i \in 1..(Len(b) - Len(a) + 1) : SubSeq(b, i, i + Len(a) - 1) = a

\* lines 90-102
phrase_present(text, phrase, prox) ==
    LET words == tokenize(text)
        p == tokenize(phrase)
    IN  IF p = <<>> \/ Len(words) < Len(p) THEN FALSE
        ELSE IF prox <= 0 THEN is_substring(join_space(p), join_space(words))
        ELSE \E i \in 1..Len(words) :
                /\ words[i] = p[1]
                /\ LET last == IF i + Len(p) + prox - 1 < Len(words)
                               THEN i + Len(p) + prox - 1 ELSE Len(words)
                       win == SubSeq(words, i, last)
                   IN  \A k \in 1..Len(p) : \E m \in 1..Len(win) : win[m] = p[k]

\* The keys of ph_ok with a true value, in insertion order: each present phrase
\* where it first occurs in req_phrases
phrase_hits_of(doc_text, req_phrases, proximity) ==
    LET first == {i \in 1..Len(req_phrases) :
                     /\ phrase_present(doc_text, req_phrases[i], proximity)
                     /\ \A j \in 1..(i - 1) : req_phrases[j] # req_phrases[i]}
        nth(k) == CHOOSE i \in first : Cardinality({j \in first : j < i}) = k - 1
    IN  [k \in 1..Cardinality(first) |-> req_phrases[nth(k)]]

Max1(n) == IF n < 1 THEN 1 ELSE n

\* lines 104-112.  cov is the fraction cov_num / cov_den; token_hits is the set
\* of the sorted list the source returns.
coverage_score(doc_text, req_terms, req_phrases, proximity) ==
    LET hits == IF req_terms # <<>> THEN keyword_hits(doc_text, req_terms) ELSE {}
        ph == phrase_hits_of(doc_text, req_phrases, proximity)
        nt == Max1(Len(req_terms))
        np == Max1(Len(req_phrases))
    IN  [cov_num |-> (IF req_terms # <<>> THEN Cardinality(hits) * np ELSE 0)
                       + (IF req_phrases # <<>> THEN Len(ph) * nt ELSE 0),
         cov_den |-> nt * np,
         token_hits |-> hits,
         phrase_hits |-> ph]

-----------------------------------------------------------------------------
(* src/hybrid_retrieval_api.py: retrieve *)

\* Bounds of the model
MaxTopK == 2

\* The Chroma collection of the app: id -> document
ChromaDocs ==
    ("h:1" :> "supervisor must grant approval")
 @@ ("h:2" :> "Refund escalation requires supervisor approval.")
 @@ ("h:3" :> "smart gallery")
ChromaIds == DOMAIN ChromaDocs
\* The docids of the app's Lucene index; h:9 is in no Chroma collection
LexicalIds == {"h:1", "h:2", "h:9"}

Queries == {"refund approval", "gallery"}
\* The embedder of the deployment (the pickled TF-IDF/SVD pipeline), as the
\* cosine similarities it gives, in tenths: query against document, document
\* against document
SimQ ==
    ("refund approval" :> (("h:1" :> 5) @@ ("h:2" :> 9) @@ ("h:3" :> 0)))
 @@ ("gallery"         :> (("h:1" :> 0) @@ ("h:2" :> 0) @@ ("h:3" :> 8)))
CosDoc ==
    ("h:1" :> (("h:1" :> 10) @@ ("h:2" :> 6) @@ ("h:3" :> 0)))
 @@ ("h:2" :> (("h:1" :> 6) @@ ("h:2" :> 10) @@ ("h:3" :> 1)))
 @@ ("h:3" :> (("h:1" :> 0) @@ ("h:2" :> 1) @@ ("h:3" :> 10)))

\* must, must_phrases, min_hits, proximity of the requests of the model
RequiredSets ==
    << [must |-> "", must_phrases |-> "", min_hits |-> 0, proximity |-> 0],
       [must |-> "refund, the Supervisor", must_phrases |-> "", min_hits |-> 0, proximity |-> 0],
       [must |-> "refund, the Supervisor", must_phrases |-> "", min_hits |-> 1, proximity |-> 0],
       [must |-> "refund refund", must_phrases |-> "", min_hits |-> 0, proximity |-> 0],
       [must |-> "", must_phrases |-> "", min_hits |-> 2, proximity |-> 0],
       [must |-> "", must_phrases |-> "supervisor approval", min_hits |-> 0, proximity |-> 0],
       [must |-> "", must_phrases |-> "supervisor approval", min_hits |-> 0, proximity |-> 2],
       [must |-> "", must_phrases |-> "supervisor approval; supervisor approval", min_hits |-> 0, proximity |-> 0],
       [must |-> "", must_phrases |-> "zebra crossing", min_hits |-> 0, proximity |-> 0],
       [must |-> "", must_phrases |-> "art gallery", min_hits |-> 0, proximity |-> 0] >>
Pools == {1, 50}
Signals == {"hybrid", "bm25", "vector", "dense", "sparse"}

Requests ==
    { [q |-> q, app_name |-> "claims", top_k |-> k, pool |-> p, signal |-> s,
       must |-> RequiredSets[r].must, must_phrases |-> RequiredSets[r].must_phrases,
       min_hits |-> RequiredSets[r].min_hits, proximity |-> RequiredSets[r].proximity] :
      q \in Queries, k \in (-1)..MaxTopK, p \in Pools, s \in Signals,
      r \in 1..Len(RequiredSets) }

\* line 223: regex="^(hybrid|bm25|vector)$"
signal_accepted(s) == s \in {"hybrid", "bm25", "vector"}

\* The maximal runs of characters outside Sep, from position i: what
\* re.split(Sep+, s) keeps once the empty strings are dropped
RECURSIVE runs_outside(_, _, _)
runs_outside(s, i, Sep) ==
    IF i > Len(s) THEN <<>>
    ELSE IF Char(s, i) \in Sep THEN runs_outside(s, i + 1, Sep)
    ELSE LET e == SetMin({j \in i..(Len(s) + 1) : j = Len(s) + 1 \/ Char(s, j) \in Sep})
         IN  <<SubSeq(s, i, e - 1)>> \o runs_outside(s, e, Sep)

\* lines 247-248
parse_req_terms(must) ==
    LET keep(t) == lower(t) \notin STOP /\ lower(t) \notin DOMAIN_STOP
        kept == SelectSeq(runs_outside(strip(must), 1, SpaceChars \cup {","}), keep)
    IN  [i \in 1..Len(kept) |-> lower(kept[i])]

\* line 249
parse_req_phrases(must_phrases) ==
    LET nonempty(x) == x # ""
        parts == runs_outside(must_phrases, 1, {";"})
    IN  SelectSeq([i \in 1..Len(parts) |-> strip(parts[i])], nonempty)

\* The same, computed once per must and must_phrases of the model's requests
TermsOf == [m \in {RequiredSets[i].must : i \in 1..Len(RequiredSets)} |-> parse_req_terms(m)]
PhrasesOf ==
    [m \in {RequiredSets[i].must_phrases : i \in 1..Len(RequiredSets)} |->
        parse_req_phrases(m)]

req_terms == TermsOf[req.must]
req_phrases == PhrasesOf[req.must_phrases]

MaxOf(a, b) == IF a >= b THEN a ELSE b
MinOf(a, b) == IF a <= b THEN a ELSE b
Take(seq, n) == SubSeq(seq, 1, MinOf(Len(seq), MaxOf(n, 0)))

\* lines 256 and 291: max(pool, top_k*6)
POOL_FACTOR == 6
pool_size(r) == MaxOf(r.pool, r.top_k * POOL_FACTOR)

\* line 195: searcher.search(qlucene, k=max(pool, 100))
BM25_MIN_K == 100
bm25_k(r) == MaxOf(r.pool, BM25_MIN_K)

\* The sequences without repetition of at most n elements of S
InjSeqs(S, n) ==
    UNION {{q \in [1..m -> S] : \A i, j \in 1..m : i # j => q[i] # q[j]} :
           m \in 0..MinOf(n, Cardinality(S))}

\* lines 260 and 198-202: the rank map of a list of ids
rank_map(id_list) == [i \in 1..Len(id_list) |-> <<id_list[i], i>>]
map_ids(pairs) == [i \in 1..Len(pairs) |-> pairs[i][1]]

\* A fusion that reads the dense rank map alone
fuse_dense_only(v_ids, b_ids) ==
    rrf_union(IF v_ids # <<>> THEN <<rank_map(v_ids)>> ELSE <<>>)

\* line 274
fuse(v_ids, b_ids) ==
    rrf_union((IF v_ids # <<>> THEN <<rank_map(v_ids)>> ELSE <<>>)
              \o (IF b_ids # <<>> THEN <<rank_map(b_ids)>> ELSE <<>>))

\* lines 288-298: the candidates in fused order.  `lost` are the ids whose
\* fetch_from_chroma_by_id gives None although Chroma holds them (lines 127-129).
hydrate(fused, v_ids, lost, limit) ==
    LET found(id) == id \in Range(v_ids) \/ (id \in ChromaIds /\ id \notin lost)
    IN  Take(SelectSeq(map_ids(fused), found), limit)

\* coverage_score of each document of the collection under each must,
\* must_phrases and proximity of the model's requests, computed once
CoverageOf ==
    [id \in ChromaIds |->
        [i \in 1..Len(RequiredSets) |->
            coverage_score(ChromaDocs[id], TermsOf[RequiredSets[i].must],
                           PhrasesOf[RequiredSets[i].must_phrases],
                           RequiredSets[i].proximity)]]
required_of(r) ==
    CHOOSE i \in 1..Len(RequiredSets) :
        /\ RequiredSets[i].must = r.must
        /\ RequiredSets[i].must_phrases = r.must_phrases
        /\ RequiredSets[i].proximity = r.proximity
coverage_of(r, id) == CoverageOf[id][required_of(r)]

\* lines 304-311: the strict test of one candidate, dbg its coverage_score
passes_filter(dbg, terms, phrases, min_hits) ==
    LET
        need == IF min_hits > 0 THEN min_hits ELSE Len(terms)
        enough_tokens == terms # <<>> => Cardinality(dbg.token_hits) >= need
        phrases_ok == phrases # <<>> => Len(dbg.phrase_hits) = Len(phrases)
    IN  enough_tokens /\ phrases_ok

\* lines 301-314
strict_filter(cands, r) ==
    LET ok(id) == passes_filter(coverage_of(r, id), TermsOf[r.must],
                                PhrasesOf[r.must_phrases], r.min_hits)
    IN  SelectSeq(cands, ok)

\* A filter without fallback
no_fallback(filt, cands) == filt

\* lines 317-318
fallback(filt, cands) == IF filt = <<>> THEN cands ELSE filt

\* line 330, in tenths
BLEND_SIM == 8
BLEND_COV == 2
\* line 333
SHORTLIST_FACTOR == 3
SHORTLIST_MIN == 16

\* line 330 times 100 * cov_den
blended(r, id) ==
    LET c == coverage_of(r, id)
    IN  BLEND_SIM * SimQ[r.q][id] * c.cov_den + BLEND_COV * 10 * c.cov_num

\* np.argsort(-blended): a permutation that sorts by descending blended value;
\* the order of equal values is the sort routine's
argsorts_desc(vals) ==
    {p \in [1..Len(vals) -> 1..Len(vals)] :
        /\ \A i, j \in 1..Len(vals) : i # j => p[i] # p[j]
        /\ \A i \in 1..(Len(vals) - 1) : vals[p[i]] >= vals[p[i + 1]]}

\* lines 333-348: the results for one outcome `order` of the argsort
select_results(r, filt, order) ==
    LET short == Take(order, MaxOf(r.top_k * SHORTLIST_FACTOR, SHORTLIST_MIN))
        sim_q == [i \in 1..Len(short) |-> SimQ[r.q][filt[short[i]]]]
        cos == [i \in 1..Len(short) |->
                  [j \in 1..Len(short) |-> CosDoc[filt[short[i]]][filt[short[j]]]]]
        mmr_idx == mmr(sim_q, cos, MinOf(r.top_k, Len(short)))
        keep_idx == [k \in 1..Len(mmr_idx) |-> short[mmr_idx[k]]]
        result(i) ==
            LET c == coverage_of(r, filt[i])
            IN  [id |-> filt[i], document |-> ChromaDocs[filt[i]],
                 coverage |-> <<c.cov_num, c.cov_den>>,
                 token_hits |-> c.token_hits, phrase_hits |-> c.phrase_hits]
    IN  [k \in 1..Len(keep_idx) |-> result(keep_idx[k])]

\* A request touches nothing of the ingestion run
RetrieveOnly == UNCHANGED <<ingest_vars, phrase_vars, rrf_vars, mmr_vars, rerun_vars, conc_vars>>

RetrieveInit ==
    /\ rpc = "received"
    /\ req \in Requests
    /\ vres = <<>>
    /\ branks = <<>>
    /\ fused_pairs = <<>>
    /\ cand_ids = <<>>
    /\ filt_ids = <<>>
    /\ response = <<>>

\* line 223: a signal the regex refuses is answered 422, the handler does not run
RejectRequest ==
    /\ rpc = "received"
    /\ RetrieveOnly
    /\ ~signal_accepted(req.signal)
    /\ rpc' = "done"
    /\ response' = [status |-> 422]
    /\ UNCHANGED <<req, vres, branks, fused_pairs, cand_ids, filt_ids>>

\* lines 246-252: the requireds are parsed, the collection is opened
OpenCollection ==
    /\ rpc = "received"
    /\ RetrieveOnly
    /\ signal_accepted(req.signal)
    /\ rpc' = "vector"
    /\ UNCHANGED <<req, vres, branks, fused_pairs, cand_ids, filt_ids, response>>

\* line 252: get_or_create_collection raises; nothing in retrieve catches it
OpenCollectionFails ==
    /\ rpc = "received"
    /\ RetrieveOnly
    /\ signal_accepted(req.signal)
    /\ rpc' = "raised"
    /\ response' = [status |-> 500]
    /\ UNCHANGED <<req, vres, branks, fused_pairs, cand_ids, filt_ids>>

\* lines 253-260: the dense adapter
VectorSearch ==
    /\ rpc = "vector"
    /\ RetrieveOnly
    /\ IF req.signal \in {"hybrid", "vector"}
       THEN \E v \in InjSeqs(ChromaIds, MinOf(MaxHits, pool_size(req))) : vres' = v
       ELSE vres' = <<>>
    /\ rpc' = "bm25"
    /\ UNCHANGED <<req, branks, fused_pairs, cand_ids, filt_ids, response>>

\* lines 255-256: qvec or coll.query raises; nothing in retrieve catches it
VectorSearchFails ==
    /\ rpc = "vector"
    /\ RetrieveOnly
    /\ req.signal \in {"hybrid", "vector"}
    /\ rpc' = "raised"
    /\ response' = [status |-> 500]
    /\ UNCHANGED <<req, vres, branks, fused_pairs, cand_ids, filt_ids>>

\* lines 262-271 and 180-203: the sparse adapter; {} when the index is missing
Bm25Search ==
    /\ rpc = "bm25"
    /\ RetrieveOnly
    /\ IF req.signal \in {"hybrid", "bm25"}
       THEN \E b \in InjSeqs(LexicalIds, MinOf(MaxHits, bm25_k(req))) : branks' = b
       ELSE branks' = <<>>
    /\ rpc' = "fuse"
    /\ UNCHANGED <<req, vres, fused_pairs, cand_ids, filt_ids, response>>

\* lines 184-196: LuceneSearcher or search raises; nothing catches it
Bm25SearchFails ==
    /\ rpc = "bm25"
    /\ RetrieveOnly
    /\ req.signal \in {"hybrid", "bm25"}
    /\ rpc' = "raised"
    /\ response' = [status |-> 500]
    /\ UNCHANGED <<req, vres, branks, fused_pairs, cand_ids, filt_ids>>

\* lines 273-285: nothing fused, the handler returns at once
FuseEmpty ==
    /\ rpc = "fuse"
    /\ RetrieveOnly
    /\ fuse(vres, branks) = <<>>
    /\ fused_pairs' = <<>>
    /\ rpc' = "done"
    /\ response' = [status |-> 200, results |-> <<>>,
                    debug |-> [pool_sizes |-> [vector |-> Len(vres), bm25 |-> Len(branks),
                                               fused |-> 0, candidates |-> 0],
                               note |-> "No candidates"]]
    /\ UNCHANGED <<req, vres, branks, cand_ids, filt_ids>>

\* lines 273-298: fuse, then hydrate the candidates
FuseAndHydrate ==
    /\ rpc = "fuse"
    /\ RetrieveOnly
    /\ fuse(vres, branks) # <<>>
    /\ fused_pairs' = fuse(vres, branks)
    /\ \E lost \in SUBSET ((Range(branks) \ Range(vres)) \cap ChromaIds) :
          cand_ids' = hydrate(fuse(vres, branks), vres, lost, pool_size(req))
    /\ rpc' = "filter"
    /\ UNCHANGED <<req, vres, branks, filt_ids, response>>

\* lines 300-314: the strict filter
StrictFilter ==
    /\ rpc = "filter"
    /\ RetrieveOnly
    /\ filt_ids' = strict_filter(cand_ids, req)
    /\ rpc' = "select"
    /\ UNCHANGED <<req, vres, branks, fused_pairs, cand_ids, response>>

final_ids == fallback(filt_ids, cand_ids)

\* lines 316-366: fallback, blend, MMR, response
SelectAndRespond ==
    /\ rpc = "select"
    /\ RetrieveOnly
    /\ LET filt == final_ids
           vals == [i \in 1..Len(filt) |-> blended(req, filt[i])]
       IN  \E order \in argsorts_desc(vals) :
              response' =
                 [status |-> 200,
                  results |-> select_results(req, filt, order),
                  debug |-> [pool_sizes |-> [vector |-> Len(vres), bm25 |-> Len(branks),
                                             fused |-> Len(fused_pairs),
                                             candidates |-> Len(cand_ids),
                                             post_filter_kept |-> Len(filt)],
                             signal |-> req.signal]]
    /\ rpc' = "done"
    /\ UNCHANGED <<req, vres, branks, fused_pairs, cand_ids, filt_ids>>

\* lines 324-328: the pipeline's transform raises on an empty list of documents
\* (no candidate was hydrated); nothing catches it
SelectFails ==
    /\ rpc = "select"
    /\ RetrieveOnly
    /\ final_ids = <<>>
    /\ rpc' = "raised"
    /\ response' = [status |-> 500]
    /\ UNCHANGED <<req, vres, branks, fused_pairs, cand_ids, filt_ids>>

RetrieveNext ==
    \/ RejectRequest
    \/ OpenCollection
    \/ OpenCollectionFails
    \/ VectorSearch
    \/ VectorSearchFails
    \/ Bm25Search
    \/ Bm25SearchFails
    \/ FuseEmpty
    \/ FuseAndHydrate
    \/ StrictFilter
    \/ SelectAndRespond
    \/ SelectFails

-----------------------------------------------------------------------------
(* phrase_present and rrf_union on bounded inputs *)

\* Bounds of the model
MaxTextLen == 4      \* characters of a generated document text
MaxPhraseLen == 3    \* characters of a generated phrase
MaxProximity == 2

PhraseAlphabet == {"a", "B", " "}

RECURSIVE StringsUpTo(_, _)
StringsUpTo(A, n) ==
    IF n = 0 THEN {""}
    ELSE LET S == StringsUpTo(A, n - 1) IN S \cup {s \o c : s \in S, c \in A}

PhraseTexts ==
    StringsUpTo(PhraseAlphabet, MaxTextLen)
        \cup {"supervisor must grant approval", "smart gallery"}
PhrasePhrases ==
    StringsUpTo(PhraseAlphabet, MaxPhraseLen) \cup {"supervisor approval", "art gallery"}

PhraseOnly == UNCHANGED <<ingest_vars, retrieve_vars, rrf_vars, mmr_vars, rerun_vars, conc_vars>>

PhraseInit ==
    /\ ppc = "input"
    /\ ph_text \in PhraseTexts
    /\ ph_phrase \in PhrasePhrases
    /\ ph_prox \in 0..MaxProximity
    /\ ph_result = FALSE

\* A call of phrase_present (line 106)
CallPhrasePresent ==
    /\ ppc = "input"
    /\ PhraseOnly
    /\ ph_result' = phrase_present(ph_text, ph_phrase, ph_prox)
    /\ ppc' = "done"
    /\ UNCHANGED <<ph_text, ph_phrase, ph_prox>>

PhraseNext == CallPhrasePresent

\* The doc_ids of the rank maps given to rrf_union, in ascending
\* (lexicographic) order
RrfIds == <<"A", "B", "C", "D">>
IdIndex(id) == CHOOSE i \in 1..Len(RrfIds) : RrfIds[i] = id

\* Rank maps as the adapters build them (lines 260, 198-202): the ids of a
\* ranked list, each with its 1-based position
RankMaps == {rank_map(q) : q \in InjSeqs(Range(RrfIds), MaxRank)}

RrfOnly == UNCHANGED <<ingest_vars, retrieve_vars, phrase_vars, mmr_vars, rerun_vars, conc_vars>>

RrfInit ==
    /\ fpc = "input"
    /\ rankings \in {<<>>} \cup {<<m>> : m \in RankMaps}
                       \cup {<<m1, m2>> : m1 \in RankMaps, m2 \in RankMaps}
    /\ rrf_result = <<>>

\* A call of rrf_union (line 274)
CallRrfUnion ==
    /\ fpc = "input"
    /\ RrfOnly
    /\ rrf_result' = rrf_union(rankings)
    /\ fpc' = "done"
    /\ UNCHANGED rankings

RrfNext == CallRrfUnion

-----------------------------------------------------------------------------
(* mmr on bounded inputs *)

\* Bounds of the model
MaxShortlist == 3    \* candidates of a shortlist given to mmr
MaxTopN == 3         \* top_n, a number of results to select

\* Cosine similarities in tenths: of a candidate with the query, of two
\* distinct candidates
SimLevels == {3, 9}
CosLevels == {0, 5, 10}

\* The similarities of a shortlist of n candidates: symmetric, 1 on the diagonal
CosMatrices(n) ==
    LET pairs == {p \in (1..n) \X (1..n) : p[1] < p[2]}
    IN  {[i \in 1..n |-> [j \in 1..n |->
              IF i = j THEN 10 ELSE IF i < j THEN u[<<i, j>>] ELSE u[<<j, i>>]]] :
         u \in [pairs -> CosLevels]}

MmrOnly == UNCHANGED <<ingest_vars, retrieve_vars, phrase_vars, rrf_vars, rerun_vars, conc_vars>>

MmrInit ==
    /\ mpc = "input"
    /\ \E n \in 0..MaxShortlist :
          /\ m_sim_q \in [1..n -> SimLevels]
          /\ m_cos \in CosMatrices(n)
    /\ m_top_n \in 0..MaxTopN
    /\ m_selected = <<>>

\* A call of mmr (line 334)
CallMmr ==
    /\ mpc = "input"
    /\ MmrOnly
    /\ m_selected' = mmr(m_sim_q, m_cos, m_top_n)
    /\ mpc' = "done"
    /\ UNCHANGED <<m_sim_q, m_cos, m_top_n>>

MmrNext == CallMmr

-----------------------------------------------------------------------------
(* src/ingest_offline.py: main, run to its end, twice over one corpus *)

\* Bounds of the model
MaxFileChunks == 2   \* chunks of a file of the corpus

\* The corpus: one file under the root of each app that has a root, as its
\* chunks with what lines 285-306 compute of each body (a file without chunks
\* is skipped, lines 270-273)
CorpusBodies ==
    { "Refund escalation requires supervisor approval.",
      "refund  ESCALATION requires\nsupervisor approval. ",
      "must", "grant" }
CorpusChunks == {ChunkFacts[b] : b \in CorpusBodies}
CorpusFiles == UNION {[1..n -> CorpusChunks] : n \in 0..MaxFileChunks}
Corpora == [RootApps -> CorpusFiles]

\* What outlives a run: the JSONL files, the Chroma collections, the Whoosh
\* indexes
EmptyStores ==
    [jsonl |-> [a \in Apps |-> <<>>],
     chroma |-> [c \in CollNames |-> {}],
     whoosh |-> [a \in Apps |-> {}],
     status |-> "none"]

\* lines 284-326: one pass of the chunk loop; st holds the dedupe caches of
\* the run and the ids kept of the file
dedupe_chunk(f, st) ==
    IF f.piece = "" THEN st
    ELSE IF is_exact_dup(f.hid, st.seen_hashes) THEN st
    ELSE IF is_near_dup(f.sh, st.seen_simhashes) THEN st
    ELSE [seen_hashes |-> st.seen_hashes \cup {f.hid},
          seen_simhashes |-> Append(st.seen_simhashes, f.sh),
          ids |-> Append(st.ids, f.cid)]

\* line 284: the chunk loop over the chunks of one file
RECURSIVE dedupe_chunks(_, _)
dedupe_chunks(chunks, st) ==
    IF chunks = <<>> THEN st
    ELSE dedupe_chunks(Tail(chunks), dedupe_chunk(Head(chunks), st))

\* lines 332-345: coll.add batch by batch.  coll.add is given ids the
\* collection may hold already; with dup_raises it raises on such a batch,
\* without it the batch leaves those ids as they are.
RECURSIVE add_batches(_, _, _, _)
add_batches(file_ids, done, have, dup_raises) ==
    IF done >= Len(file_ids) THEN [ids |-> have, ok |-> TRUE]
    ELSE LET b_ids == batched(file_ids, BATCH_SIZE, done)
         IN  IF dup_raises /\ Range(b_ids) \cap have # {}
             THEN [ids |-> have, ok |-> FALSE]
             ELSE add_batches(file_ids, done + Len(b_ids), have \cup Range(b_ids),
                              dup_raises)

\* lines 223-375 for one collection whose root holds the file `file`
ingest_collection(c, file, run, use_whoosh, dup_raises) ==
    LET d == dedupe_chunks(file, [seen_hashes |-> run.seen_hashes,
                                  seen_simhashes |-> run.seen_simhashes,
                                  ids |-> <<>>])
        \* lines 324-326: the JSONL records are appended as the chunks are kept
        written == [run EXCEPT !.seen_hashes = d.seen_hashes,
                               !.seen_simhashes = d.seen_simhashes,
                               !.jsonl[c.app] = @ \o d.ids]
        added == add_batches(d.ids, 0, run.chroma[c.name], dup_raises)
    IN  IF d.ids = <<>> THEN written
        ELSE IF ~added.ok
             THEN [written EXCEPT !.chroma[c.name] = added.ids, !.status = "aborted"]
             ELSE [written EXCEPT !.chroma[c.name] = added.ids,
                                  !.whoosh[c.app] =
                                      IF use_whoosh THEN upsert(@, d.ids) ELSE @]

RECURSIVE ingest_collections(_, _, _, _, _)
ingest_collections(i, corpus, run, use_whoosh, dup_raises) ==
    IF i > Len(Collections) \/ run.status = "aborted" THEN run
    ELSE ingest_collections(
             i + 1, corpus,
             IF Collections[i].app \in RootApps
             THEN ingest_collection(Collections[i], corpus[Collections[i].app], run,
                                    use_whoosh, dup_raises)
             ELSE run,
             use_whoosh, dup_raises)

\* lines 175-385: one run of main over the corpus, from the stores as the
\* previous run left them; the dedupe caches start empty (lines 207-208), the
\* JSONL files are opened for appending (line 171)
ingest_run(corpus, stores, use_whoosh, dup_raises) ==
    LET run == ingest_collections(
                   1, corpus,
                   [seen_hashes |-> {}, seen_simhashes |-> <<>>,
                    jsonl |-> stores.jsonl, chroma |-> stores.chroma,
                    whoosh |-> stores.whoosh, status |-> "running"],
                   use_whoosh, dup_raises)
    IN  [jsonl |-> run.jsonl, chroma |-> run.chroma, whoosh |-> run.whoosh,
         status |-> IF run.status = "aborted" THEN "aborted" ELSE "done"]

RerunOnly == UNCHANGED <<ingest_vars, retrieve_vars, phrase_vars, rrf_vars, mmr_vars, conc_vars>>

RerunInit ==
    /\ rr_pc = "start"
    /\ rr_corpus \in Corpora
    /\ rr_use_whoosh \in BOOLEAN
    /\ rr_stores = EmptyStores
    /\ rr_first = EmptyStores

\* The first run, on empty stores
FirstRun ==
    /\ rr_pc = "start"
    /\ RerunOnly
    /\ rr_stores' = ingest_run(rr_corpus, rr_stores, rr_use_whoosh, FALSE)
    /\ rr_first' = rr_stores'
    /\ rr_pc' = "once"
    /\ UNCHANGED <<rr_corpus, rr_use_whoosh>>

\* The second run over the same corpus, coll.add leaving known ids alone
SecondRun ==
    /\ rr_pc = "once"
    /\ RerunOnly
    /\ rr_stores' = ingest_run(rr_corpus, rr_stores, rr_use_whoosh, FALSE)
    /\ rr_pc' = "twice"
    /\ UNCHANGED <<rr_corpus, rr_use_whoosh, rr_first>>

\* The second run over the same corpus, coll.add raising on a known id: the
\* run ends there (line 393)
SecondRunAddFails ==
    /\ rr_pc = "once"
    /\ RerunOnly
    /\ ingest_run(rr_corpus, rr_stores, rr_use_whoosh, TRUE).status = "aborted"
    /\ rr_stores' = ingest_run(rr_corpus, rr_stores, rr_use_whoosh, TRUE)
    /\ rr_pc' = "aborted"
    /\ UNCHANGED <<rr_corpus, rr_use_whoosh, rr_first>>

RerunNext ==
    \/ FirstRun
    \/ SecondRun
    \/ SecondRunAddFails

-----------------------------------------------------------------------------
(* src/hybrid_retrieval_api.py: two calls of retrieve running concurrently *)

\* retrieve is a plain def: FastAPI runs each call on a thread of its pool
Procs == {1, 2}

\* The parameters the two requests share
ConcRequests ==
    {r \in Requests : /\ signal_accepted(r.signal)
                      /\ r.top_k >= 1
                      /\ r.pool = 50
                      /\ r.must_phrases = ""
                      /\ r.min_hits = 0}

\* The index nobody writes: the ranking Chroma gives for the query vector and
\* the ranking the Lucene searcher gives for the query string
IndexStates ==
    [dense : InjSeqs(ChromaIds, MaxHits), sparse : InjSeqs(LexicalIds, MaxHits)]

\* np.argsort is a function of the array it is given; the order it gives to
\* equal values is the routine's: here the lower or the higher index first
TieOrders == {"first", "last"}
argsort_desc(vals, ties) ==
    CHOOSE p \in argsorts_desc(vals) :
        \A i, j \in 1..Len(vals) :
            (i < j /\ vals[p[i]] = vals[p[j]]) =>
                IF ties = "first" THEN p[i] < p[j] ELSE p[i] > p[j]

\* lines 253-260: the dense adapter on that index
dense_hits(index, r) ==
    IF r.signal \in {"hybrid", "vector"} THEN Take(index.dense, pool_size(r)) ELSE <<>>

\* lines 262-271 and 180-203: the sparse adapter on that index
sparse_hits(index, r) ==
    IF r.signal \in {"hybrid", "bm25"} THEN Take(index.sparse, bm25_k(r)) ELSE <<>>

\* A call that reads the names of the call that came first
first_callers(frames, p) == frames[1]

\* The names vres, branks, fused, candidates, filtered are locals of retrieve:
\* each call reads its own
own(frames, p) == frames[p]

ConcOnly ==
    UNCHANGED <<ingest_vars, retrieve_vars, phrase_vars, rrf_vars, mmr_vars, rerun_vars>>

ConcInit ==
    /\ c_req \in ConcRequests
    /\ c_index \in IndexStates
    /\ c_argsort \in TieOrders
    /\ c_pc = [p \in Procs |-> "vector"]
    /\ c_vres = [p \in Procs |-> <<>>]
    /\ c_branks = [p \in Procs |-> <<>>]
    /\ c_fused = [p \in Procs |-> <<>>]
    /\ c_cand = [p \in Procs |-> <<>>]
    /\ c_filt = [p \in Procs |-> <<>>]
    /\ c_response = [p \in Procs |-> <<>>]

\* lines 246-260
ConcVectorSearch ==
    \E p \in Procs :
        /\ c_pc[p] = "vector"
        /\ ConcOnly
        /\ c_vres' = [c_vres EXCEPT ![p] = dense_hits(c_index, c_req)]
        /\ c_pc' = [c_pc EXCEPT ![p] = "bm25"]
        /\ UNCHANGED <<c_req, c_index, c_argsort, c_branks, c_fused, c_cand, c_filt,
                       c_response>>

\* lines 262-271
ConcBm25Search ==
    \E p \in Procs :
        /\ c_pc[p] = "bm25"
        /\ ConcOnly
        /\ c_branks' = [c_branks EXCEPT ![p] = sparse_hits(c_index, c_req)]
        /\ c_pc' = [c_pc EXCEPT ![p] = "fuse"]
        /\ UNCHANGED <<c_req, c_index, c_argsort, c_vres, c_fused, c_cand, c_filt,
                       c_response>>

\* lines 273-285
ConcFuseEmpty ==
    \E p \in Procs :
        /\ c_pc[p] = "fuse"
        /\ ConcOnly
        /\ fuse(own(c_vres, p), own(c_branks, p)) = <<>>
        /\ c_pc' = [c_pc EXCEPT ![p] = "done"]
        /\ c_response' = [c_response EXCEPT ![p] = [status |-> 200, results |-> <<>>]]
        /\ UNCHANGED <<c_req, c_index, c_argsort, c_vres, c_branks, c_fused, c_cand,
                       c_filt>>

\* lines 273-298; every id Chroma holds is fetched
ConcFuseAndHydrate ==
    \E p \in Procs :
        /\ c_pc[p] = "fuse"
        /\ ConcOnly
        /\ fuse(own(c_vres, p), own(c_branks, p)) # <<>>
        /\ c_fused' = [c_fused EXCEPT ![p] = fuse(own(c_vres, p), own(c_branks, p))]
        /\ c_cand' = [c_cand EXCEPT ![p] =
                         hydrate(fuse(own(c_vres, p), own(c_branks, p)), own(c_vres, p),
                                 {}, pool_size(c_req))]
        /\ c_pc' = [c_pc EXCEPT ![p] = "filter"]
        /\ UNCHANGED <<c_req, c_index, c_argsort, c_vres, c_branks, c_filt, c_response>>

\* lines 300-314
ConcStrictFilter ==
    \E p \in Procs :
        /\ c_pc[p] = "filter"
        /\ ConcOnly
        /\ c_filt' = [c_filt EXCEPT ![p] = strict_filter(own(c_cand, p), c_req)]
        /\ c_pc' = [c_pc EXCEPT ![p] = "select"]
        /\ UNCHANGED <<c_req, c_index, c_argsort, c_vres, c_branks, c_fused, c_cand,
                       c_response>>

\* lines 316-366
ConcSelectAndRespond ==
    \E p \in Procs :
        /\ c_pc[p] = "select"
        /\ ConcOnly
        /\ fallback(own(c_filt, p), own(c_cand, p)) # <<>>
        /\ LET filt == fallback(own(c_filt, p), own(c_cand, p))
               vals == [i \in 1..Len(filt) |-> blended(c_req, filt[i])]
           IN  c_response' =
                   [c_response EXCEPT ![p] =
                       [status |-> 200,
                        results |-> select_results(c_req, filt,
                                                   argsort_desc(vals, c_argsort))]]
        /\ c_pc' = [c_pc EXCEPT ![p] = "done"]
        /\ UNCHANGED <<c_req, c_index, c_argsort, c_vres, c_branks, c_fused, c_cand,
                       c_filt>>

\* lines 324-328: no candidate was hydrated, the pipeline's transform raises
ConcSelectFails ==
    \E p \in Procs :
        /\ c_pc[p] = "select"
        /\ ConcOnly
        /\ fallback(own(c_filt, p), own(c_cand, p)) = <<>>
        /\ c_pc' = [c_pc EXCEPT ![p] = "raised"]
        /\ c_response' = [c_response EXCEPT ![p] = [status |-> 500]]
        /\ UNCHANGED <<c_req, c_index, c_argsort, c_vres, c_branks, c_fused, c_cand,
                       c_filt>>

ConcNext ==
    \/ ConcVectorSearch
    \/ ConcBm25Search
    \/ ConcFuseEmpty
    \/ ConcFuseAndHydrate
    \/ ConcStrictFilter
    \/ ConcSelectAndRespond
    \/ ConcSelectFails

\* The variables of the ingestion run while another specification runs
IngestIdle ==
    /\ ipc = "idle"
    /\ USE_WHOOSH = FALSE
    /\ coll_idx = 1
    /\ files_done = 0
    /\ chunks_done = 0
    /\ file_chunks = 0
    /\ seen_hashes = {}
    /\ seen_simhashes = <<>>
    /\ exact_dups_skipped = 0
    /\ near_dups_skipped = 0
    /\ ids = <<>>
    /\ payload_texts = <<>>
    /\ batch_pos = 0
    /\ to_upsert_for_bm25 = <<>>
    /\ jsonl = [a \in Apps |-> <<>>]
    /\ chroma = [c \in CollNames |-> {}]
    /\ whoosh = [a \in Apps |-> {}]
    /\ retained = <<>>
    /\ last_chunk = [body |-> "", outcome |-> "none"]

\* The variables of the request while another specification runs
RetrieveIdle ==
    /\ rpc = "idle"
    /\ req = <<>>
    /\ vres = <<>>
    /\ branks = <<>>
    /\ fused_pairs = <<>>
    /\ cand_ids = <<>>
    /\ filt_ids = <<>>
    /\ response = <<>>

PhraseIdle ==
    /\ ppc = "idle"
    /\ ph_text = ""
    /\ ph_phrase = ""
    /\ ph_prox = 0
    /\ ph_result = FALSE

RrfIdle ==
    /\ fpc = "idle"
    /\ rankings = <<>>
    /\ rrf_result = <<>>

MmrIdle ==
    /\ mpc = "idle"
    /\ m_sim_q = <<>>
    /\ m_cos = <<>>
    /\ m_top_n = 0
    /\ m_selected = <<>>

RerunIdle ==
    /\ rr_pc = "idle"
    /\ rr_corpus = <<>>
    /\ rr_use_whoosh = FALSE
    /\ rr_stores = <<>>
    /\ rr_first = <<>>

ConcIdle ==
    /\ c_pc = <<>>
    /\ c_req = <<>>
    /\ c_index = <<>>
    /\ c_argsort = "first"
    /\ c_vres = <<>>
    /\ c_branks = <<>>
    /\ c_fused = <<>>
    /\ c_cand = <<>>
    /\ c_filt = <<>>
    /\ c_response = <<>>

SpecIngestInit == IngestInit /\ RetrieveIdle /\ PhraseIdle /\ RrfIdle /\ MmrIdle /\ RerunIdle /\ ConcIdle
SpecIngest == SpecIngestInit /\ [][IngestNext]_vars

SpecRetrieveInit == RetrieveInit /\ IngestIdle /\ PhraseIdle /\ RrfIdle /\ MmrIdle /\ RerunIdle /\ ConcIdle
SpecRetrieve == SpecRetrieveInit /\ [][RetrieveNext]_vars

SpecPhraseInit == PhraseInit /\ IngestIdle /\ RetrieveIdle /\ RrfIdle /\ MmrIdle /\ RerunIdle /\ ConcIdle
SpecPhrase == SpecPhraseInit /\ [][PhraseNext]_vars

SpecRRFInit == RrfInit /\ IngestIdle /\ RetrieveIdle /\ PhraseIdle /\ MmrIdle /\ RerunIdle /\ ConcIdle
SpecRRF == SpecRRFInit /\ [][RrfNext]_vars

-----------------------------------------------------------------------------
(* Properties of an ingestion run *)

B1 == "Refund escalation requires supervisor approval."
B1Variant == "refund  ESCALATION requires\nsupervisor approval. "

\* A step of the chunk loop, and what the loop computes for its chunk
IsChunkStep == chunks_done' = chunks_done + 1
SeenCid(cid) == \E k \in 1..Len(retained) : retained[k].cid = cid
WithinNearDup(sh) ==
    \E k \in 1..Len(retained) : hamming(sh, retained[k].sh) <= NEAR_DUP_MAX_HAMMING
JsonlCount == SumSeq([i \in 1..Len(Collections) |-> Len(jsonl[Collections[i].app])])
JsonlCids == UNION {Range(jsonl[a]) : a \in Apps}

RetainedDistinctCids ==
    /\ \A i, j \in 1..Len(retained) :
          i # j => retained[i].cid # retained[j].cid /\ retained[i].norm # retained[j].norm
    /\ JsonlCids = {retained[k].cid : k \in 1..Len(retained)}
    /\ JsonlCount = Len(retained)

ExactDupStep ==
    IsChunkStep =>
        LET f == ChunkFacts[last_chunk'.body]
        IN  f.piece # "" =>
               IF SeenCid(f.cid)
               THEN /\ exact_dups_skipped' = exact_dups_skipped + 1
                    /\ near_dups_skipped' = near_dups_skipped
                    /\ retained' = retained
                    /\ jsonl' = jsonl
               ELSE exact_dups_skipped' = exact_dups_skipped

ScenarioAStep ==
    (/\ IsChunkStep
     /\ Len(retained) = 1 /\ retained[1].piece = B1 /\ exact_dups_skipped = 0
     /\ last_chunk'.body = B1Variant)
        => /\ Len(retained') = 1
           /\ exact_dups_skipped' = 1
           /\ JsonlCount' = 1

\* C1: exact dedup.  Over the chunks of one run, across files and collections,
\* no two retained chunks have the same cid ("h:" + sha256 of the normalized
\* body), and each retained cid is written once; a chunk whose hash is that of
\* a retained chunk is dropped and exact_dups_skipped grows by exactly 1 (and
\* by nothing otherwise); the whitespace-and-case variant of Scenario A's
\* sentence, coming after the sentence, leaves one retained chunk and
\* exact_dups_skipped = 1.
C1_ExactDedup == [](RetainedDistinctCids) /\ [][ExactDupStep /\ ScenarioAStep]_vars

\* Scenario A has happened: the sentence is retained, its variant was dropped
C1_Witness ==
    /\ last_chunk = [body |-> B1Variant, outcome |-> "exact"]
    /\ Len(retained) = 1 /\ retained[1].piece = B1
    /\ exact_dups_skipped = 1
    /\ chunks_done = 2

RetainedFarApart ==
    \A i, j \in 1..Len(retained) :
        i # j => hamming(retained[i].sh, retained[j].sh) > NEAR_DUP_MAX_HAMMING

NearDupStep ==
    IsChunkStep =>
        LET f == ChunkFacts[last_chunk'.body]
            kept == [cid |-> f.cid, sh |-> f.sh, piece |-> f.piece, norm |-> f.norm]
        IN  f.piece # "" =>
               /\ (retained' = retained) <=> WithinNearDup(f.sh)
               /\ ~WithinNearDup(f.sh) => retained' = Append(retained, kept)
               /\ (near_dups_skipped' = near_dups_skipped + 1)
                     <=> (WithinNearDup(f.sh) /\ ~SeenCid(f.cid))
               /\ near_dups_skipped' \in {near_dups_skipped, near_dups_skipped + 1}

\* C2: near-duplicate suppression.  In every reachable state any two distinct
\* retained chunks have SimHash Hamming distance > 3.  A chunk that reaches the
\* dedupe step is dropped exactly when the simhash of some retained chunk is
\* within distance 3 of its own, and kept otherwise; near_dups_skipped grows
\* (by 1) exactly when that happens to a candidate of the near step, that is a
\* chunk the exact step (C1) has not already dropped and counted.
C2_NearDupSuppression == [](RetainedFarApart) /\ [][NearDupStep]_vars

\* A chunk at distance exactly 3 of a retained one was dropped as near-duplicate
C2_Witness ==
    /\ last_chunk.outcome = "near"
    /\ near_dups_skipped = 1
    /\ \E k \in 1..Len(retained) :
          hamming(ChunkFacts[last_chunk.body].sh, retained[k].sh) = NEAR_DUP_MAX_HAMMING

NoOrphans ==
    /\ UNION {chroma[c] : c \in CollNames} = JsonlCids
    /\ \A i \in 1..Len(Collections) :
          chroma[Collections[i].name] = Range(jsonl[Collections[i].app])
    /\ USE_WHOOSH => \A a \in Apps : whoosh[a] = Range(jsonl[a])

-----------------------------------------------------------------------------
(* Properties of a retrieve request *)

\* retrieve has returned its response body (HTTP 200)
IsResponse == rpc = "done" /\ response.status = 200
ResultIds == [k \in 1..Len(response.results) |-> response.results[k].id]
Distinct(q) == \A i, j \in 1..Len(q) : i # j => q[i] # q[j]

\* C4, as claimed: for every response of retrieve, whatever integer top_k is,
\* the number of results is at most top_k and the result ids are pairwise
\* distinct; with top_k = 0 the request is answered, with an empty results list.
C4_AtMostTopK ==
    /\ IsResponse => Len(response.results) <= req.top_k /\ Distinct(ResultIds)
    /\ (rpc = "done" /\ signal_accepted(req.signal) /\ req.top_k = 0)
          => response.status = 200 /\ response.results = <<>>

\* C5: filter fallback.  If the strict filter retains none of the hydrated
\* candidates, retrieve goes on with all of them, each with its coverage; so
\* whenever a candidate exists and top_k >= 1 the results of the response are
\* not empty, as when must_phrases holds a phrase no candidate has.
C5_FilterFallback ==
    /\ (rpc = "select" /\ cand_ids # <<>>) => final_ids # <<>> /\ ~ENABLED SelectFails
    /\ (IsResponse /\ cand_ids # <<>>) =>
          /\ req.top_k >= 1 => response.results # <<>>
          /\ filt_ids = <<>> =>
                /\ response.debug.pool_sizes.post_filter_kept = Len(cand_ids)
                /\ Range(ResultIds) \subseteq Range(cand_ids)
                /\ Len(ResultIds) = MinOf(MaxOf(req.top_k, 0), Len(cand_ids))
                /\ \A k \in 1..Len(response.results) :
                      LET res == response.results[k]
                          c == coverage_score(res.document, parse_req_terms(req.must),
                                              parse_req_phrases(req.must_phrases),
                                              req.proximity)
                      IN  /\ res.coverage = <<c.cov_num, c.cov_den>>
                          /\ res.token_hits = c.token_hits
                          /\ res.phrase_hits = c.phrase_hits

\* The strict filter kept nothing for a phrase that no candidate has, and the
\* response has results all the same
C5_Witness ==
    /\ IsResponse
    /\ req.must_phrases = "zebra crossing"
    /\ req.top_k >= 1
    /\ cand_ids # <<>>
    /\ filt_ids = <<>>
    /\ response.results # <<>>

\* The predicate of the claim, for the document of a candidate and the
\* requireds of a request
ClaimedPass(doc, r) ==
    LET terms == parse_req_terms(r.must)
        phrases == parse_req_phrases(r.must_phrases)
        token_hits == keyword_hits(doc, terms)
        need == IF r.min_hits > 0 THEN r.min_hits ELSE Len(terms)
    IN  /\ Cardinality(token_hits) >= need
        /\ \A k \in 1..Len(phrases) : phrase_present(doc, phrases[k], r.proximity)
ClaimedPassOf ==
    [id \in ChromaIds |->
        [i \in 1..Len(RequiredSets) |-> ClaimedPass(ChromaDocs[id], RequiredSets[i])]]
RequiredIndex(r) ==
    CHOOSE i \in 1..Len(RequiredSets) :
        RequiredSets[i] = [must |-> r.must, must_phrases |-> r.must_phrases,
                           min_hits |-> r.min_hits, proximity |-> r.proximity]

\* C6, as claimed: whatever the lists of required tokens and phrases, repeated
\* entries included, a candidate passes the strict filter if and only if
\* |token_hits| >= need (need = min_hits if min_hits > 0, else the number of
\* required tokens) and every required phrase is present in its body.
C6_StrictFilterPredicate ==
    rpc = "select" =>
        \A k \in 1..Len(cand_ids) :
            (cand_ids[k] \in Range(filt_ids))
                <=> ClaimedPassOf[cand_ids[k]][RequiredIndex(req)]

\* C9, as claimed: no exception escapes a retrieve request; a failing backend
\* call of an adapter leaves an empty rank map and retrieve returns a response.
C9_NoExceptionEscapes == rpc # "raised"

NoPoolSizes == [vector |-> 0, bm25 |-> 0, fused |-> 0, candidates |-> 0]

EmptyRankMapStep ==
    rpc = "fuse" =>
        /\ (vres = <<>> /\ branks # <<>>)
              => rpc' = "filter" /\ map_ids(fused_pairs') = branks
        /\ (vres # <<>> /\ branks = <<>>)
              => rpc' = "filter" /\ map_ids(fused_pairs') = vres
        /\ (vres = <<>> /\ branks = <<>>)
              => /\ rpc' = "done"
                 /\ response'.status = 200
                 /\ response'.results = <<>>
                 /\ response'.debug.pool_sizes = NoPoolSizes

\* C10: an empty rank map disables its signal and is no error.  If exactly one
\* adapter returned an empty map the request goes on, and the fused list is the
\* ids of the other adapter in that adapter's rank order; if both maps are
\* empty the request is answered 200 with no results and a debug record whose
\* pool sizes are all 0.
C10_EmptyRankMap == [][EmptyRankMapStep]_vars

\* A hybrid request whose dense adapter returned nothing goes on with the two
\* ids of the sparse adapter, in its order
C10_Witness ==
    /\ rpc = "filter"
    /\ req.signal = "hybrid"
    /\ vres = <<>>
    /\ Len(branks) = 2
    /\ map_ids(fused_pairs) = branks

-----------------------------------------------------------------------------
(* Properties of phrase_present and rrf_union *)

\* The predicate of the claim on token sequences (0-based i as in the claim:
\* w[i + 1] is the first token of the occurrence)
ClaimedPhrasePresent(text, phrase, prox) ==
    LET w == tokenize(text)
        p == tokenize(phrase)
    IN  IF prox = 0
        THEN \E i \in 0..(Len(w) - Len(p)) : \A k \in 1..Len(p) : w[i + k] = p[k]
        ELSE \E i \in 1..Len(w) :
                /\ w[i] = p[1]
                /\ \A k \in 1..Len(p) :
                      \E m \in i..MinOf(Len(w), i + Len(p) + prox - 1) : w[m] = p[k]

ScenarioCBody == "supervisor must grant approval"
ScenarioCPhrase == "supervisor approval"

\* C7, as claimed: for a phrase with at least one token, phrase_present(body,
\* p, proximity) is true if and only if, on w = tokenize(body) and p_tokens =
\* tokenize(p), p_tokens occurs as a contiguous run of whole tokens of w
\* (proximity = 0), or some i has w[i] = p_tokens[0] and every token of
\* p_tokens in w[i : i+len(p_tokens)+proximity] (proximity > 0); the phrase
\* "supervisor approval" is absent from "supervisor must grant approval" at
\* proximity 0 and present at proximity 2.
C7_PhrasePresent ==
    (ppc = "done" /\ tokenize(ph_phrase) # <<>>) =>
        /\ ph_result <=> ClaimedPhrasePresent(ph_text, ph_phrase, ph_prox)
        /\ (ph_text = ScenarioCBody /\ ph_phrase = ScenarioCPhrase)
              => (ph_result <=> ph_prox = 2)

\* The doc_ids of a list of rank maps, and the score the claim gives each
RankedIds(rks) == UNION {{m[t][1] : t \in 1..Len(m)} : m \in Range(rks)}
ClaimedScore(rks, id) ==
    SumSeq([n \in 1..Len(rks) |->
               IF \E t \in 1..Len(rks[n]) : rks[n][t][1] = id
               THEN RrfUnit((CHOOSE t \in 1..Len(rks[n]) : rks[n][t][1] = id))
               ELSE 0])

ScenarioD ==
    << rank_map(<<"A", "B", "C">>), rank_map(<<"B", "C", "D">>) >>

\* C8, as claimed: for any list of rank maps rrf_union returns each cid of
\* their union exactly once, with score the sum of 1/(60 + rank) over the maps
\* that hold it, by descending score, cids of equal score by ascending cid
\* whatever order the adapters listed them in; the maps {A:1,B:2,C:3} and
\* {B:1,C:2,D:3} give B, C, A, D.
C8_RrfFusion ==
    fpc = "done" =>
        LET n == Len(rrf_result)
        IN  /\ {rrf_result[k][1] : k \in 1..n} = RankedIds(rankings)
            /\ \A i, j \in 1..n : i # j => rrf_result[i][1] # rrf_result[j][1]
            /\ \A k \in 1..n : rrf_result[k][2] = ClaimedScore(rankings, rrf_result[k][1])
            /\ \A i, j \in 1..n :
                  i < j =>
                     \/ rrf_result[i][2] > rrf_result[j][2]
                     \/ /\ rrf_result[i][2] = rrf_result[j][2]
                        /\ IdIndex(rrf_result[i][1]) < IdIndex(rrf_result[j][1])
            /\ rankings = ScenarioD => map_ids(rrf_result) = <<"B", "C", "A", "D">>

-----------------------------------------------------------------------------
(* Properties of the signal parameter and of chunks that normalize to nothing *)

ClaimedSignals == {"hybrid", "dense", "sparse"}

\* C11, as claimed: the signal parameter accepts exactly hybrid, dense and
\* sparse; a request with signal = dense (the lexical index missing, so that
\* the sparse adapter has nothing to give) is answered 200, only the dense
\* adapter has run, and debug.pool_sizes.sparse is 0.
C11_SignalValues ==
    rpc # "received" =>
        /\ (rpc = "done" /\ response.status = 422) <=> req.signal \notin ClaimedSignals
        /\ (rpc = "done" /\ req.signal = "dense") =>
              /\ response.status = 200
              /\ branks = <<>>
              /\ "sparse" \in DOMAIN response.debug.pool_sizes
              /\ response.debug.pool_sizes.sparse = 0

\* C12, as claimed: a chunk whose body normalizes to the empty string, such as
\* a body of boilerplate lines only ("Page 3", "Confidential"), is dropped: it
\* is never retained, never written to the JSONL corpus, the VectorStore or
\* Whoosh, and it raises neither exact_dups_skipped nor near_dups_skipped.
C12_EmptyNormalizedDropped ==
    /\ \A k \in 1..Len(retained) : retained[k].norm # ""
    /\ cid_of("") \notin JsonlCids
    /\ \A c \in CollNames : cid_of("") \notin chroma[c]
    /\ \A a \in Apps : cid_of("") \notin whoosh[a]
    /\ (last_chunk.outcome # "none" /\ ChunkFacts[last_chunk.body].norm = "")
          => last_chunk.outcome = "empty"

-----------------------------------------------------------------------------
(* The candidate pool *)

ClaimedPool == MaxOf(req.pool, req.top_k * 6)
IsSubsequenceOf(a, b) ==
    LET in_a(x) == x \in Range(a) IN a = SelectSeq(b, in_a)

\* C16, as claimed: with P = max(pool, top_k*6) the dense adapter returns at
\* most P ids, the rank map of the sparse adapter has at most P ids, and the
\* hydrated candidates given to the strict filter are at most P, in fused order.
C16_PoolSize ==
    /\ Len(vres) <= ClaimedPool
    /\ Len(branks) <= ClaimedPool
    /\ rpc \in {"filter", "select"} =>
          /\ Len(cand_ids) <= ClaimedPool
          /\ IsSubsequenceOf(cand_ids, map_ids(fused_pairs))

-----------------------------------------------------------------------------
(* Dedup bookkeeping *)

SeenMatchesRetained ==
    /\ {"h:" \o h : h \in seen_hashes} = {retained[k].cid : k \in 1..Len(retained)}
    /\ seen_simhashes = [k \in 1..Len(retained) |-> retained[k].sh]
    /\ Cardinality(seen_hashes) = Len(retained)
    /\ Len(seen_simhashes) = Len(retained)
    /\ Len(retained) + exact_dups_skipped + near_dups_skipped <= chunks_done

BookkeepingStep ==
    LET d_retained == Len(retained') - Len(retained)
        d_exact == exact_dups_skipped' - exact_dups_skipped
        d_near == near_dups_skipped' - near_dups_skipped
    IN  /\ {d_retained, d_exact, d_near} \subseteq {0, 1}
        /\ IF IsChunkStep /\ ChunkFacts[last_chunk'.body].piece # ""
           THEN /\ d_retained + d_exact + d_near = 1
                /\ SeenCid(ChunkFacts[last_chunk'.body].cid) => d_exact = 1
                /\ d_retained = 0
                      => seen_hashes' = seen_hashes /\ seen_simhashes' = seen_simhashes
           ELSE /\ d_retained + d_exact + d_near = 0
                /\ seen_hashes' = seen_hashes /\ seen_simhashes' = seen_simhashes

\* C17: dedup bookkeeping.  After any prefix of a run seen_hashes and
\* seen_simhashes hold the entries of exactly the retained chunks, so both have
\* as many entries as there are retained chunks.  Every non-empty chunk body
\* processed adds 1 to exactly one of: the retained chunks, exact_dups_skipped,
\* near_dups_skipped (so their sum is the number of non-empty bodies
\* processed), a dropped chunk adds to neither cache, nothing else changes
\* them, and a chunk whose hash is already seen is counted as exact duplicate,
\* never as near duplicate.
C17_DedupBookkeeping == [](SeenMatchesRetained) /\ [][BookkeepingStep]_vars

\* Three non-empty chunks: one retained, one exact duplicate, one near duplicate
C17_Witness ==
    /\ chunks_done = 3
    /\ Len(retained) = 1
    /\ exact_dups_skipped = 1
    /\ near_dups_skipped = 1
    /\ Cardinality(seen_hashes) = 1

SpecMMRInit == MmrInit /\ IngestIdle /\ RetrieveIdle /\ PhraseIdle /\ RrfIdle /\ RerunIdle /\ ConcIdle
SpecMMR == SpecMMRInit /\ [][MmrNext]_vars

SpecRerunInit == RerunInit /\ IngestIdle /\ RetrieveIdle /\ PhraseIdle /\ RrfIdle /\ MmrIdle /\ ConcIdle
SpecRerun == SpecRerunInit /\ [][RerunNext]_vars

SpecConcurrentInit ==
    ConcInit /\ IngestIdle /\ RetrieveIdle /\ PhraseIdle /\ RrfIdle /\ MmrIdle /\ RerunIdle
SpecConcurrent == SpecConcurrentInit /\ [][ConcNext]_vars

-----------------------------------------------------------------------------
(* MMR selection *)

\* The score the claim gives candidate i once the candidates of sel are
\* selected, in hundredths
ClaimedMmrScore(i, sel) ==
    7 * m_sim_q[i] - 3 * SetMax({m_cos[i][s] : s \in sel})

\* C15: MMR selection.  Over a shortlist of n candidates and a number top_n of
\* results to select, mmr returns exactly min(top_n, n) pairwise distinct
\* indices; the first is the argmax of sim_q, each later one is the remaining
\* index that maximizes 0.7*sim_q_i - 0.3*max over the selected s of
\* cos(v_i, v_s), and every tie, in the first pick and in the later ones, goes
\* to the lowest shortlist index.
C15_MmrSelection ==
    mpc = "done" =>
        LET n == Len(m_sim_q)
            r == m_selected
        IN  /\ Len(r) = MinOf(m_top_n, n)
            /\ \A t \in 1..Len(r) : r[t] \in 1..n
            /\ \A t, u \in 1..Len(r) : t # u => r[t] # r[u]
            /\ Len(r) >= 1 =>
                  \A i \in 1..n : \/ m_sim_q[i] < m_sim_q[r[1]]
                                  \/ (m_sim_q[i] = m_sim_q[r[1]] /\ r[1] <= i)
            /\ \A t \in 2..Len(r) :
                  LET sel == {r[k] : k \in 1..(t - 1)}
                  IN  \A i \in (1..n) \ sel :
                         \/ ClaimedMmrScore(i, sel) < ClaimedMmrScore(r[t], sel)
                         \/ /\ ClaimedMmrScore(i, sel) = ClaimedMmrScore(r[t], sel)
                            /\ r[t] <= i

\* Three candidates equally similar to the query, the second and third equally
\* similar to the first: both picks are ties, and go to the lowest index
C15_Witness ==
    /\ mpc = "done"
    /\ Len(m_sim_q) = 3
    /\ m_top_n = 2
    /\ m_sim_q[1] = m_sim_q[2] /\ m_sim_q[2] = m_sim_q[3]
    /\ m_cos[2][1] = m_cos[3][1]
    /\ m_selected = <<1, 2>>

-----------------------------------------------------------------------------
(* Ingesting twice *)

StoredCids(stores) == UNION {stores.chroma[c] : c \in CollNames}

\* C13, as claimed: ingestion is idempotent.  Two runs in sequence over the
\* same unchanged corpus leave the same set of cids and the same contents of
\* the VectorStore, of the JSONL corpus and of the Whoosh index as one run.
C13_Idempotent ==
    rr_pc = "twice" =>
        /\ StoredCids(rr_stores) = StoredCids(rr_first)
        /\ rr_stores.chroma = rr_first.chroma
        /\ rr_stores.whoosh = rr_first.whoosh
        /\ rr_stores.jsonl = rr_first.jsonl

-----------------------------------------------------------------------------
(* Concurrent requests *)

BothAnswered == \A p \in Procs : c_pc[p] \in {"done", "raised"}
ConcResultIds(p) ==
    IF c_response[p].status = 200
    THEN [k \in 1..Len(c_response[p].results) |-> c_response[p].results[k].id]
    ELSE <<>>

=============================================================================
